---- MODULE Spec2Model ----
(***************************************************************************)
(* Token-bucket rate limiter (rate-limiter.go).                            *)
(*                                                                         *)
(* State: the rateLimiter struct (RATE_LIMIT, REFILL_INTERVAL,             *)
(* tokenBucket, mx), the refill goroutines started by Run, and a set of    *)
(* request goroutines, each at a position inside a middleware or a status  *)
(* handler.  A request's critical section is split where the code blocks   *)
(* or performs I/O: at r.mx.Lock(), at the downstream handler call and at  *)
(* the write of the response.  RefillBucket has no such point and is one   *)
(* step.                                                                   *)
(*                                                                         *)
(* Durations are in nanoseconds, as time.Duration.  A token is the         *)
(* timestamp taken when it was appended; timestamps only have to increase  *)
(* from one append to the next, and the model uses the ordinal of the      *)
(* append.  Goroutines of one kind are interchangeable: the refill         *)
(* goroutines are counted, and a new request takes the lowest free slot.   *)
(***************************************************************************)
EXTENDS Integers, Sequences, FiniteSets, TLC

\* ------------------------------------------------------------------ bounds
MaxCapacity == 3
NumCallers == 2
MaxTicks == 4
MaxRequests == 4
MaxRuns == 1

\* --------------------------------------------------------------- constants
Second == 1000 * 1000 * 1000
StatusOK == 200
StatusTooManyRequests == 429
NoOwner == 0
RefillOwner == -1

Callers == 1..NumCallers
Capacities == (-1)..MaxCapacity
Intervals == {-Second, 0, Second \div 10, Second}

\* The configurations given to SetConfig: every capacity with no interval
\* and with an interval of 1 s, capacity 2 with an interval of 100 ms and
\* capacity 1 with an interval of -1 s.
Configs ==
    {cfg \in Capacities \X Intervals :
         \/ cfg[2] \in {0, Second}
         \/ cfg = <<2, Second \div 10>>
         \/ cfg = <<1, -Second>>}

\* The ways a request reaches the bucket:
\*   "test"    RateLimitHTTPMiddleware in front of TestEndpointWtihHTTP, or
\*             RateLimitGinMiddleware in front of TestEndpointWithGin
\*             (main: POST /test/)
\*   "bucket"  RateLimitGinMiddleware in front of GetBucketStatusWithGin
\*             (main: r.Use(middleware), then GET /test/bucket)
\*   "status"  GetBucketStatusWithHTTP / GetBucketStatusWithGin registered
\*             on a route with no middleware in front
Kinds == {"test", "bucket", "status"}
MiddlewareKinds == {"test", "bucket"}

\* The three middlewares: RateLimitHTTPMiddleware and RateLimitGinMiddleware
\* of rate-limiter.go and RateLimitMiddleware of the standalone program.
Variants == {"http", "gin", "standalone"}

VARIABLES
    RATE_LIMIT,       \* r.RATE_LIMIT
    REFILL_INTERVAL,  \* r.REFILL_INTERVAL, nanoseconds
    tokenBucket,      \* r.tokenBucket, sequence of timestamps
    mx,               \* r.mx: NoOwner, the caller holding it or RefillOwner
    phase,            \* "new", "configured", "running", "panicked"
    runs,             \* refill goroutines started by Run
    locking,          \* of these, how many are inside RefillBucket at Lock
    pc,               \* position of each request goroutine
    kind,             \* route of each request in progress
    res,              \* response of the middleware to the request in progress
    st,               \* BucketStatus built for the request in progress
    ticksDone,        \* RefillBucket calls completed
    added,            \* tokens appended so far
    admitted,         \* requests admitted so far
    requests,         \* requests started so far
    sinceTick,        \* middleware decisions since the last RefillBucket
    contended,        \* most requests blocked on the lock at one of them
    lenAtTick,        \* len(tokenBucket) right after the last RefillBucket
    lastStatus,       \* status read since the last decision or RefillBucket
    statusReads,      \* status reads since the last decision or RefillBucket
    hinted,           \* a request was rejected and a RefillBucket has run since
    retry,            \* the request in progress was sent while hinted
    variant,          \* one bucket per middleware variant, driven in step
    refilling         \* RefillBucket between its test and its append

vars == <<RATE_LIMIT, REFILL_INTERVAL, tokenBucket, mx, phase, runs, locking,
          pc, kind, res, st, ticksDone, added, admitted, requests, sinceTick,
          contended, lenAtTick, lastStatus, statusReads, hinted, retry,
          variant, refilling>>

bucketVars == <<RATE_LIMIT, REFILL_INTERVAL, tokenBucket>>
ghostVars == <<ticksDone, added, admitted, sinceTick, contended, lenAtTick,
               lastStatus, statusReads, hinted, variant, refilling>>

\* ----------------------------------------------------------------- helpers
Min(a, b) == IF a < b THEN a ELSE b

\* Variant of FormatSeconds: whole seconds only, as "%d" of int(d.Seconds()).
FormatSecondsWhole(d) == [sec |-> d \div Second, micro |-> 0]

\* fmt.Sprintf("%f second", d.Seconds()): Duration.Seconds() is
\* float64(d / Second) + float64(d % Second) / 1e9 and %f prints six
\* decimals, rounded to the nearest.  The result is the printed number as
\* whole seconds and millionths.  Defined for d >= 0 and for a negative
\* whole number of seconds (Go truncates a negative d toward zero; a tie at
\* half a microsecond follows the binary value).
FormatSeconds(d) ==
    LET sec   == d \div Second
        nsec  == d % Second
        micro == (nsec + 500) \div 1000
    IN  IF micro = 1000 * 1000
        THEN [sec |-> sec + 1, micro |-> 0]
        ELSE [sec |-> sec, micro |-> micro]

\* The duration a printed hint stands for, in nanoseconds.
HintNanos(h) == h.sec * Second + h.micro * 1000

NoHint == [sec |-> -1, micro |-> -1]
NoResponse == [outcome |-> "none", code |-> 0, remaining |-> -1,
               retry |-> NoHint, token |-> 0]
NoStatus == [BucketLimit |-> -2, CurrentBucketSize |-> -1, Bucket |-> <<>>]

\* Variant of BucketStatus: the timestamps are copied into the response.
BucketStatusWithTokens(limit, bucket) ==
    [BucketLimit |-> limit, CurrentBucketSize |-> Len(bucket),
     Bucket |-> bucket]

\* BucketStatus{BucketLimit, CurrentBucketSize, Bucket: []int64{}}
BucketStatus(limit, bucket) ==
    [BucketLimit |-> limit, CurrentBucketSize |-> Len(bucket), Bucket |-> <<>>]

\* ------------------------------------------------------------------- Init
\* New(): the zero value of rateLimiter.
Init ==
    /\ RATE_LIMIT = 0
    /\ REFILL_INTERVAL = 0
    /\ tokenBucket = <<>>
    /\ mx = NoOwner
    /\ phase = "new"
    /\ runs = 0
    /\ locking = 0
    /\ pc = [c \in Callers |-> "idle"]
    /\ kind = [c \in Callers |-> "none"]
    /\ res = [c \in Callers |-> NoResponse]
    /\ st = [c \in Callers |-> NoStatus]
    /\ ticksDone = 0
    /\ added = 0
    /\ admitted = 0
    /\ requests = 0
    /\ sinceTick = <<>>
    /\ contended = 0
    /\ lenAtTick = 0
    /\ lastStatus = NoStatus
    /\ statusReads = 0
    /\ hinted = FALSE
    /\ retry = [c \in Callers |-> FALSE]
    /\ variant = [v \in Variants |-> [bucket |-> <<>>, out |-> NoResponse]]
    /\ refilling = "no"

\* ---------------------------------------------------------------- actions
\* Variant of SetConfig: the bucket is filled to the capacity it is given.
SetConfigFilled(limit, interval) ==
    /\ phase = "new"
    /\ RATE_LIMIT' = limit
    /\ REFILL_INTERVAL' = interval
    /\ tokenBucket' = [i \in 1..limit |-> 0]
    /\ phase' = "configured"
    /\ UNCHANGED <<mx, runs, locking, pc, kind, res, st, requests, retry>>
    /\ UNCHANGED ghostVars

\* SetConfig: two plain stores, no lock, tokenBucket untouched.
SetConfig(limit, interval) ==
    /\ phase = "new"
    /\ RATE_LIMIT' = limit
    /\ REFILL_INTERVAL' = interval
    /\ phase' = "configured"
    /\ UNCHANGED <<tokenBucket, mx, runs, locking, pc, kind, res, st,
                   requests, retry>>
    /\ UNCHANGED ghostVars

\* Variant of Run: the ticker is created whatever the interval.
RunUnchecked ==
    /\ phase \in {"new", "configured", "running"}
    /\ runs < MaxRuns
    /\ phase' = "running"
    /\ runs' = runs + 1
    /\ UNCHANGED <<RATE_LIMIT, REFILL_INTERVAL, tokenBucket, mx, locking, pc,
                   kind, res, st, requests, retry>>
    /\ UNCHANGED ghostVars

\* Run: time.NewTicker panics on a non-positive interval; otherwise the
\* goroutine is started and waits on ticker.C.
Run ==
    /\ phase \in {"new", "configured", "running"}
    /\ runs < MaxRuns
    /\ IF REFILL_INTERVAL <= 0
       THEN /\ phase' = "panicked"
            /\ runs' = runs
       ELSE /\ phase' = "running"
            /\ runs' = runs + 1
    /\ UNCHANGED <<RATE_LIMIT, REFILL_INTERVAL, tokenBucket, mx, locking, pc,
                   kind, res, st, requests, retry>>
    /\ UNCHANGED ghostVars

\* for range ticker.C: one of the goroutines waiting on its ticker receives
\* a tick and calls RefillBucket, where it first waits for the lock.
Tick ==
    /\ phase = "running"
    /\ locking < runs
    /\ ticksDone + locking < MaxTicks
    /\ locking' = locking + 1
    /\ UNCHANGED <<RATE_LIMIT, REFILL_INTERVAL, tokenBucket, mx, phase, runs,
                   pc, kind, res, st, requests, retry>>
    /\ UNCHANGED ghostVars

\* Variants of Refilled: no capacity test, a test that is off by one, and
\* a refill that tops the bucket up to the limit in one tick.
RefilledUnchecked(bucket, limit, now) == Append(bucket, now)

RefilledOffByOne(bucket, limit, now) ==
    IF Len(bucket) <= limit THEN Append(bucket, now) ELSE bucket

RefilledToLimit(bucket, limit, now) ==
    IF Len(bucket) < limit
    THEN bucket \o [i \in 1..(limit - Len(bucket)) |-> now]
    ELSE bucket

\* Variant of Refilled: the bucket is tested for being exactly full.
RefilledNotEqual(bucket, limit, now) ==
    IF Len(bucket) # limit THEN Append(bucket, now) ELSE bucket

\* Variant of Refilled: the comparison is reversed.
RefilledReversed(bucket, limit, now) ==
    IF Len(bucket) > limit THEN Append(bucket, now) ELSE bucket

\* The bucket after the body of RefillBucket; now is time.Now().UnixNano().
Refilled(bucket, limit, now) ==
    IF Len(bucket) < limit THEN Append(bucket, now) ELSE bucket

\* The bucket after the body of RefillBucket of the standalone program.
RefilledStandalone(bucket, limit, now) ==
    IF Len(bucket) < limit THEN Append(bucket, now) ELSE bucket

\* One tick on each variant's bucket: the two middlewares of rate-limiter.go
\* share its RefillBucket, the standalone program has its own.
VariantsRefilled(now) ==
    [v \in Variants |->
        [bucket |-> IF v = "standalone"
                    THEN RefilledStandalone(variant[v].bucket, RATE_LIMIT, now)
                    ELSE Refilled(variant[v].bucket, RATE_LIMIT, now),
         out |-> NoResponse]]

\* RefillBucket: Lock, the body, the deferred Unlock.
RefillBucket ==
    /\ locking > 0
    /\ mx = NoOwner
    /\ tokenBucket' = Refilled(tokenBucket, RATE_LIMIT, added + 1)
    /\ added' = added + (Len(tokenBucket') - Len(tokenBucket))
    /\ ticksDone' = ticksDone + 1
    /\ locking' = locking - 1
    /\ sinceTick' = <<>>
    /\ contended' = 0
    /\ lenAtTick' = Len(tokenBucket')
    /\ lastStatus' = NoStatus
    /\ statusReads' = 0
    /\ hinted' = (hinted \/ \E i \in 1..Len(sinceTick) :
                                sinceTick[i].outcome = "Rejected")
    /\ variant' = VariantsRefilled(added + 1)
    /\ UNCHANGED <<RATE_LIMIT, REFILL_INTERVAL, mx, phase, runs, pc, kind, res,
                   st, admitted, requests, retry, refilling>>

\* A request arrives on one of the routes and gets a goroutine.
Request(c, k) ==
    /\ phase \in {"configured", "running"}
    /\ pc[c] = "idle"
    /\ \A d \in Callers : d < c => pc[d] # "idle"
    /\ requests < MaxRequests
    /\ requests' = requests + 1
    /\ kind' = [kind EXCEPT ![c] = k]
    /\ pc' = [pc EXCEPT ![c] = IF k \in MiddlewareKinds THEN "mw_lock"
                                                       ELSE "st_lock"]
    /\ retry' = [retry EXCEPT ![c] = hinted /\ k \in MiddlewareKinds]
    /\ UNCHANGED <<RATE_LIMIT, REFILL_INTERVAL, tokenBucket, mx, phase, runs,
                   locking, res, st>>
    /\ UNCHANGED ghostVars

\* Variants of Consumed: the token is left in place; the bucket is emptied.
ConsumedNothing(bucket) == bucket

ConsumedAll(bucket) == <<>>

\* Variant of Consumed: two tokens are taken when there are two.
ConsumedTwo(bucket) ==
    IF Len(bucket) > 1 THEN Tail(Tail(bucket)) ELSE Tail(bucket)

\* The bucket after the admit branch: r.tokenBucket = r.tokenBucket[1:].
Consumed(bucket) == Tail(bucket)

\* Variant of AdmitResponse: the header is computed before the removal.
AdmitResponseStale(bucket, taken) ==
    [outcome |-> "Admitted", code |-> 0, remaining |-> Len(bucket) + 1,
     retry |-> NoHint, token |-> taken]

\* The response headers of the admit branch: X-RateLimit-Remaining is
\* len(r.tokenBucket) after the removal.
AdmitResponse(bucket, taken) ==
    [outcome |-> "Admitted", code |-> 0, remaining |-> Len(bucket),
     retry |-> NoHint, token |-> taken]

\* The response of the reject branch.
RejectResponse(interval) ==
    [outcome |-> "Rejected", code |-> StatusTooManyRequests, remaining |-> 0,
     retry |-> FormatSeconds(interval), token |-> 0]

\* Variant of NextHandler: the admit branch returns without calling the
\* downstream handler.
NextHandlerSkipped(k) == "mw_ret"

\* The position after the admit branch has set the header: the downstream
\* handler is called with the lock still held (the Unlock is deferred).
\* TestEndpoint* runs; GetBucketStatusWithGin starts with r.mx.Lock().
NextHandler(k) == IF k = "bucket" THEN "st_lock" ELSE "handler"

\* Variant of RateLimitGinMiddleware: the newest token is taken.
RateLimitGinMiddlewareNewest(bucket, interval) ==
    IF Len(bucket) > 0
    THEN LET rest == SubSeq(bucket, 1, Len(bucket) - 1)
         IN  [bucket |-> rest,
              out |-> [outcome |-> "Admitted", code |-> 0,
                       remaining |-> Len(rest), retry |-> NoHint,
                       token |-> bucket[Len(bucket)]]]
    ELSE [bucket |-> bucket,
          out |-> [outcome |-> "Rejected", code |-> StatusTooManyRequests,
                   remaining |-> 0, retry |-> FormatSeconds(interval),
                   token |-> 0]]

\* The gate of RateLimitHTTPMiddleware as a function of the bucket and the
\* interval: the bucket it leaves and the response it sets.
RateLimitHTTPMiddleware(bucket, interval) ==
    IF Len(bucket) > 0
    THEN LET rest == Tail(bucket)
         IN  [bucket |-> rest,
              out |-> [outcome |-> "Admitted", code |-> 0,
                       remaining |-> Len(rest), retry |-> NoHint,
                       token |-> Head(bucket)]]
    ELSE [bucket |-> bucket,
          out |-> [outcome |-> "Rejected", code |-> StatusTooManyRequests,
                   remaining |-> 0, retry |-> FormatSeconds(interval),
                   token |-> 0]]

\* The gate of RateLimitGinMiddleware.
RateLimitGinMiddleware(bucket, interval) ==
    IF Len(bucket) > 0
    THEN LET rest == Tail(bucket)
         IN  [bucket |-> rest,
              out |-> [outcome |-> "Admitted", code |-> 0,
                       remaining |-> Len(rest), retry |-> NoHint,
                       token |-> Head(bucket)]]
    ELSE [bucket |-> bucket,
          out |-> [outcome |-> "Rejected", code |-> StatusTooManyRequests,
                   remaining |-> 0, retry |-> FormatSeconds(interval),
                   token |-> 0]]

\* The gate of RateLimitMiddleware of the standalone program.
RateLimitMiddleware(bucket, interval) ==
    IF Len(bucket) > 0
    THEN LET rest == Tail(bucket)
         IN  [bucket |-> rest,
              out |-> [outcome |-> "Admitted", code |-> 0,
                       remaining |-> Len(rest), retry |-> NoHint,
                       token |-> Head(bucket)]]
    ELSE [bucket |-> bucket,
          out |-> [outcome |-> "Rejected", code |-> StatusTooManyRequests,
                   remaining |-> 0, retry |-> FormatSeconds(interval),
                   token |-> 0]]

\* One request through each variant's middleware, on that variant's bucket.
VariantsGated ==
    [v \in Variants |->
        CASE v = "http" ->
                 RateLimitHTTPMiddleware(variant[v].bucket, REFILL_INTERVAL)
          [] v = "gin" ->
                 RateLimitGinMiddleware(variant[v].bucket, REFILL_INTERVAL)
          [] v = "standalone" ->
                 RateLimitMiddleware(variant[v].bucket, REFILL_INTERVAL)]

\* The request goroutines blocked in the middleware's r.mx.Lock().
Contenders == Cardinality({d \in Callers : pc[d] = "mw_lock"})

Max(a, b) == IF a > b THEN a ELSE b

\* RateLimitHTTPMiddleware / RateLimitGinMiddleware, from r.mx.Lock() up to
\* the call of the downstream handler (admit) or the write of the 429
\* response (reject).
Middleware(c) ==
    /\ pc[c] = "mw_lock"
    /\ mx = NoOwner
    /\ mx' = c
    /\ IF Len(tokenBucket) > 0
       THEN /\ tokenBucket' = Consumed(tokenBucket)
            /\ res' = [res EXCEPT ![c] =
                          AdmitResponse(tokenBucket', Head(tokenBucket))]
            /\ pc' = [pc EXCEPT ![c] = NextHandler(kind[c])]
            /\ admitted' = admitted + 1
       ELSE /\ tokenBucket' = tokenBucket
            /\ res' = [res EXCEPT ![c] = RejectResponse(REFILL_INTERVAL)]
            /\ pc' = [pc EXCEPT ![c] = "write429"]
            /\ admitted' = admitted
    /\ sinceTick' = Append(sinceTick, res'[c])
    /\ contended' = Max(contended, Contenders)
    /\ lastStatus' = NoStatus
    /\ statusReads' = 0
    /\ variant' = VariantsGated
    /\ UNCHANGED <<RATE_LIMIT, REFILL_INTERVAL, phase, runs, locking, kind, st,
                   ticksDone, added, requests, lenAtTick, hinted, retry,
                   refilling>>

\* TestEndpointWtihHTTP / TestEndpointWithGin: writes the 200 response and
\* returns into the middleware.
TestEndpoint(c) ==
    /\ pc[c] = "handler"
    /\ res' = [res EXCEPT ![c].code = StatusOK]
    /\ pc' = [pc EXCEPT ![c] = "mw_ret"]
    /\ UNCHANGED <<RATE_LIMIT, REFILL_INTERVAL, tokenBucket, mx, phase, runs,
                   locking, kind, st, requests, retry>>
    /\ UNCHANGED ghostVars

\* The middleware returns (after the handler, or after the 429 response is
\* written) and the deferred r.mx.Unlock() runs; the request goroutine ends
\* and the caller may send another request.
MiddlewareReturn(c) ==
    /\ pc[c] \in {"mw_ret", "write429"}
    /\ mx' = NoOwner
    /\ pc' = [pc EXCEPT ![c] = "idle"]
    /\ kind' = [kind EXCEPT ![c] = "none"]
    /\ res' = [res EXCEPT ![c] = NoResponse]
    /\ st' = [st EXCEPT ![c] = NoStatus]
    /\ retry' = [retry EXCEPT ![c] = FALSE]
    /\ UNCHANGED <<RATE_LIMIT, REFILL_INTERVAL, tokenBucket, phase, runs,
                   locking, requests>>
    /\ UNCHANGED ghostVars

\* GetBucketStatusWithHTTP / GetBucketStatusWithGin, from r.mx.Lock() to the
\* built response; sync.Mutex is not reentrant.
GetBucketStatus(c) ==
    /\ pc[c] = "st_lock"
    /\ mx = NoOwner
    /\ mx' = c
    /\ st' = [st EXCEPT ![c] = BucketStatus(RATE_LIMIT, tokenBucket)]
    /\ lastStatus' = st'[c]
    /\ statusReads' = statusReads + 1
    /\ pc' = [pc EXCEPT ![c] = "st_write"]
    /\ UNCHANGED <<RATE_LIMIT, REFILL_INTERVAL, tokenBucket, phase, runs,
                   locking, kind, res, ticksDone, added, admitted, requests,
                   sinceTick, contended, lenAtTick, hinted, retry, variant,
                   refilling>>

\* The status response is written and the deferred r.mx.Unlock() runs.
GetBucketStatusReturn(c) ==
    /\ pc[c] = "st_write"
    /\ mx' = NoOwner
    /\ IF kind[c] = "bucket"
       THEN /\ pc' = [pc EXCEPT ![c] = "mw_ret"]
            /\ UNCHANGED <<kind, res, st, retry>>
       ELSE /\ pc' = [pc EXCEPT ![c] = "idle"]
            /\ kind' = [kind EXCEPT ![c] = "none"]
            /\ res' = [res EXCEPT ![c] = NoResponse]
            /\ st' = [st EXCEPT ![c] = NoStatus]
            /\ retry' = [retry EXCEPT ![c] = FALSE]
    /\ UNCHANGED <<RATE_LIMIT, REFILL_INTERVAL, tokenBucket, phase, runs,
                   locking, requests>>
    /\ UNCHANGED ghostVars

Next ==
    \/ \E cfg \in Configs : SetConfig(cfg[1], cfg[2])
    \/ Run
    \/ Tick
    \/ RefillBucket
    \/ \E c \in Callers, k \in Kinds : Request(c, k)
    \/ \E c \in Callers : Middleware(c)
    \/ \E c \in Callers : TestEndpoint(c)
    \/ \E c \in Callers : MiddlewareReturn(c)
    \/ \E c \in Callers : GetBucketStatus(c)
    \/ \E c \in Callers : GetBucketStatusReturn(c)

Spec == Init /\ [][Next]_vars

\* ------------------------------------------------- SetConfig on a live bucket
\* SetConfig takes no lock, so once requests and refill goroutines exist its
\* stores can fall between any two accesses they make under r.mx.  The only
\* place where that shows is RefillBucket, which reads RATE_LIMIT for its
\* test and then appends: here it is two steps, and every other handler is
\* as above.

\* SetConfig called again, with a new positive capacity and the interval
\* already in force (the second store then changes nothing, and the call is
\* one step).
SetConfigAgain(limit, interval) ==
    /\ phase \in {"configured", "running"}
    /\ limit > 0
    /\ limit # RATE_LIMIT
    /\ interval = REFILL_INTERVAL
    /\ RATE_LIMIT' = limit
    /\ REFILL_INTERVAL' = interval
    /\ UNCHANGED <<tokenBucket, mx, phase, runs, locking, pc, kind, res, st,
                   requests, retry>>
    /\ UNCHANGED ghostVars

\* RefillBucket, from r.mx.Lock() to the outcome of the test
\* int64(len(r.tokenBucket)) < r.RATE_LIMIT.
RefillBucketTest ==
    /\ locking > 0
    /\ mx = NoOwner
    /\ mx' = RefillOwner
    /\ refilling' = IF Len(tokenBucket) < RATE_LIMIT THEN "append" ELSE "skip"
    /\ UNCHANGED <<RATE_LIMIT, REFILL_INTERVAL, tokenBucket, phase, runs,
                   locking, pc, kind, res, st, requests, retry, ticksDone,
                   added, admitted, sinceTick, contended, lenAtTick,
                   lastStatus, statusReads, hinted, variant>>

\* RefillBucket, from the outcome of the test to the deferred Unlock.
RefillBucketAppend ==
    /\ refilling # "no"
    /\ tokenBucket' = IF refilling = "append"
                      THEN Append(tokenBucket, added + 1)
                      ELSE tokenBucket
    /\ variant' = [v \in Variants |->
                      [bucket |-> IF refilling = "append"
                                  THEN Append(variant[v].bucket, added + 1)
                                  ELSE variant[v].bucket,
                       out |-> NoResponse]]
    /\ refilling' = "no"
    /\ mx' = NoOwner
    /\ added' = added + (Len(tokenBucket') - Len(tokenBucket))
    /\ ticksDone' = ticksDone + 1
    /\ locking' = locking - 1
    /\ sinceTick' = <<>>
    /\ contended' = 0
    /\ lenAtTick' = Len(tokenBucket')
    /\ lastStatus' = NoStatus
    /\ statusReads' = 0
    /\ hinted' = (hinted \/ \E i \in 1..Len(sinceTick) :
                                sinceTick[i].outcome = "Rejected")
    /\ UNCHANGED <<RATE_LIMIT, REFILL_INTERVAL, phase, runs, pc, kind, res, st,
                   admitted, requests, retry>>

NextReconfig ==
    \/ \E cfg \in Configs : SetConfig(cfg[1], cfg[2])
    \/ \E cfg \in Configs : SetConfigAgain(cfg[1], cfg[2])
    \/ Run
    \/ Tick
    \/ RefillBucketTest
    \/ RefillBucketAppend
    \/ \E c \in Callers, k \in Kinds : Request(c, k)
    \/ \E c \in Callers : Middleware(c)
    \/ \E c \in Callers : TestEndpoint(c)
    \/ \E c \in Callers : MiddlewareReturn(c)
    \/ \E c \in Callers : GetBucketStatus(c)
    \/ \E c \in Callers : GetBucketStatusReturn(c)

SpecReconfig == Init /\ [][NextReconfig]_vars

\* ------------------------------------------------------------- properties
\* A step in which request c passes r.mx.Lock() of the middleware and takes
\* its decision.
Decides(c) == pc[c] = "mw_lock" /\ pc'[c] # "mw_lock"

\* A step in which request c passes r.mx.Lock() of a status handler and
\* builds the BucketStatus.
ReadsStatus(c) == pc[c] = "st_lock" /\ pc'[c] = "st_write"

\* A step that is one whole RefillBucket call.
Refills == ticksDone' = ticksDone + 1

AdmittedAt == {i \in 1..Len(sinceTick) : sinceTick[i].outcome = "Admitted"}
RejectedAt == {i \in 1..Len(sinceTick) : sinceTick[i].outcome = "Rejected"}

\* C1. Capacity invariant: on a bucket configured with a positive capacity
\* and created empty, in every state of every interleaving of refill ticks,
\* middleware calls and status reads the number of tokens is between 0 and
\* the capacity, and so is every size a status read reports.
CapacityInvariant ==
    RATE_LIMIT > 0 =>
        /\ 0 <= Len(tokenBucket)
        /\ Len(tokenBucket) <= RATE_LIMIT
        /\ \A c \in Callers :
               st[c] # NoStatus =>
                   /\ 0 <= st[c].CurrentBucketSize
                   /\ st[c].CurrentBucketSize <= RATE_LIMIT

\* The bucket is full again after tokens were consumed, a tick has found it
\* full, and a status read is reporting the full size.
CapacityWitness ==
    /\ RATE_LIMIT > 0
    /\ Len(tokenBucket) = RATE_LIMIT
    /\ admitted > 0
    /\ ticksDone > RATE_LIMIT + admitted
    /\ \E c \in Callers : st[c].CurrentBucketSize = RATE_LIMIT

\* C2. No double-spend: of the middleware calls decided since the last
\* refill tick, on a bucket that held K tokens after that tick, at most K
\* are admitted; once more than K are decided exactly K were admitted and
\* all the others rejected; and no two admitted calls took the same token.
NoDoubleSpend ==
    /\ Cardinality(AdmittedAt) <= lenAtTick
    /\ Len(sinceTick) > lenAtTick =>
           /\ Cardinality(AdmittedAt) = lenAtTick
           /\ Cardinality(RejectedAt) = Len(sinceTick) - lenAtTick
    /\ \A i \in AdmittedAt, j \in AdmittedAt :
           i # j => sinceTick[i].token # sinceTick[j].token

\* Two requests were blocked on the lock together against a bucket of one
\* token: one was admitted and the other rejected.
NoDoubleSpendWitness ==
    /\ lenAtTick = 1
    /\ Len(sinceTick) = 2
    /\ contended = 2
    /\ sinceTick[1].outcome = "Admitted"
    /\ sinceTick[2].outcome = "Rejected"

\* C3. Admission effect: a middleware call that takes the lock when the
\* bucket holds n > 0 tokens is admitted, removes exactly one token (the
\* oldest) and reports n-1 as the remaining count.
AdmissionEffect ==
    [][\A c \in Callers :
           (Decides(c) /\ Len(tokenBucket) > 0) =>
               /\ res'[c].outcome = "Admitted"
               /\ pc'[c] = NextHandler(kind[c])
               /\ tokenBucket' = Tail(tokenBucket)
               /\ Len(tokenBucket') = Len(tokenBucket) - 1
               /\ res'[c].remaining = Len(tokenBucket) - 1
               /\ res'[c].token = Head(tokenBucket)]_vars

\* A request was admitted from a bucket of three tokens and its handler is
\* running with remaining count 2.
AdmissionWitness ==
    \E c \in Callers :
        /\ pc[c] = "handler"
        /\ res[c].outcome = "Admitted"
        /\ res[c].remaining = 2
        /\ Len(tokenBucket) = 2

\* C4. Rejection outcome: a middleware call that takes the lock when the
\* bucket is empty is rejected with status 429, remaining count 0 and a
\* retry hint that, printed in seconds with six decimals, stands for the
\* configured REFILL_INTERVAL, and leaves the bucket, the capacity and the
\* interval unchanged.
RejectionOutcome ==
    [][\A c \in Callers :
           (Decides(c) /\ Len(tokenBucket) = 0) =>
               /\ res'[c].outcome = "Rejected"
               /\ res'[c].code = StatusTooManyRequests
               /\ res'[c].remaining = 0
               /\ HintNanos(res'[c].retry) = REFILL_INTERVAL
               /\ pc'[c] = "write429"
               /\ UNCHANGED bucketVars]_vars

\* A request is being rejected with a hint of 0.1 s although a refill
\* goroutine has already received its next tick.
RejectionWitness ==
    \E c \in Callers :
        /\ pc[c] = "write429"
        /\ res[c].outcome = "Rejected"
        /\ res[c].retry = [sec |-> 0, micro |-> 100000]
        /\ REFILL_INTERVAL = Second \div 10
        /\ ticksDone > 0
        /\ locking > 0

\* C5. Refill tick: a RefillBucket call appends exactly one token when the
\* bucket holds fewer than RATE_LIMIT tokens, changes nothing otherwise, and
\* never changes the configuration; a full bucket stays at its capacity.
RefillTickSemantics ==
    [][Refills =>
           /\ Len(tokenBucket) < RATE_LIMIT =>
                  /\ Len(tokenBucket') = Len(tokenBucket) + 1
                  /\ SubSeq(tokenBucket', 1, Len(tokenBucket)) = tokenBucket
           /\ Len(tokenBucket) >= RATE_LIMIT => tokenBucket' = tokenBucket
           /\ UNCHANGED <<RATE_LIMIT, REFILL_INTERVAL>>]_vars

\* Two ticks in a row have found the bucket full.
RefillSaturationWitness ==
    /\ RATE_LIMIT > 0
    /\ admitted = 0
    /\ Len(tokenBucket) = RATE_LIMIT
    /\ lenAtTick = RATE_LIMIT
    /\ ticksDone = RATE_LIMIT + 2

\* C6. Linear replenishment: with a positive capacity C and no admission so
\* far, after k refill ticks the bucket holds min(k, C) tokens.
LinearReplenishment ==
    (RATE_LIMIT > 0 /\ admitted = 0) =>
        Len(tokenBucket) = Min(ticksDone, RATE_LIMIT)

\* Capacity 2 after three ticks holds 2 tokens.
LinearReplenishmentWitness ==
    /\ RATE_LIMIT = 2
    /\ REFILL_INTERVAL = Second \div 10
    /\ admitted = 0
    /\ ticksDone = 3
    /\ Len(tokenBucket) = 2

\* The decision scenario A expects at position i of a run of middleware
\* calls against three tokens: admitted with 2, 1, 0 remaining, then
\* rejected with a hint of one second.
ScenarioAExpected(i, d) ==
    IF i <= 3
    THEN d.outcome = "Admitted" /\ d.remaining = 3 - i
    ELSE d.outcome = "Rejected" /\ d.remaining = 0
         /\ HintNanos(d.retry) = Second

\* C7 as stated. Scenario A: with capacity 3 and interval 1 s, before any
\* refill tick, the first three middleware calls are admitted with
\* remaining counts 2, 1, 0 and the fourth is rejected with a hint of 1 s.
ScenarioAFreshBucket ==
    (RATE_LIMIT = 3 /\ REFILL_INTERVAL = Second /\ ticksDone = 0) =>
        \A i \in 1..Len(sinceTick) : ScenarioAExpected(i, sinceTick[i])

\* C7, amended. With capacity 3 and interval 1 s: before any refill tick
\* every middleware call is rejected with remaining count 0 and a hint of
\* 1 s; after a tick that left the bucket with three tokens, and until the
\* next tick, the first three calls are admitted with remaining counts 2,
\* 1, 0 and every later call is rejected with a hint of 1 s.
ScenarioAFilledBucket ==
    (RATE_LIMIT = 3 /\ REFILL_INTERVAL = Second) =>
        /\ ticksDone = 0 =>
               \A i \in 1..Len(sinceTick) : ScenarioAExpected(4, sinceTick[i])
        /\ lenAtTick = 3 =>
               \A i \in 1..Len(sinceTick) : ScenarioAExpected(i, sinceTick[i])

\* Four calls were decided against the three tokens of a filled bucket.
ScenarioAWitness ==
    /\ RATE_LIMIT = 3
    /\ REFILL_INTERVAL = Second
    /\ lenAtTick = 3
    /\ Len(sinceTick) = 4
    /\ sinceTick[3].remaining = 0
    /\ sinceTick[4].outcome = "Rejected"

\* C8. Status: a status read returns RATE_LIMIT, the current number of
\* tokens and an empty detail list, changes neither the bucket nor the
\* configuration, and returns the same limit and size as the previous
\* status read when no middleware decision and no refill tick came between.
StatusSnapshot ==
    [][\A c \in Callers :
           /\ ReadsStatus(c) =>
                  /\ st'[c].BucketLimit = RATE_LIMIT
                  /\ st'[c].CurrentBucketSize = Len(tokenBucket)
                  /\ st'[c].Bucket = <<>>
                  /\ statusReads > 0 =>
                         /\ st'[c].BucketLimit = lastStatus.BucketLimit
                         /\ st'[c].CurrentBucketSize =
                                lastStatus.CurrentBucketSize
                  /\ UNCHANGED bucketVars
           /\ (pc[c] = "st_write" /\ pc'[c] # "st_write") =>
                  UNCHANGED bucketVars]_vars

\* A third status read in a row is reporting a bucket of two tokens.
StatusWitness ==
    \E c \in Callers :
        /\ pc[c] = "st_write"
        /\ statusReads = 3
        /\ st[c].CurrentBucketSize = 2
        /\ st[c].BucketLimit = RATE_LIMIT
        /\ Len(tokenBucket) = 2

\* C9 as stated. No request waits for the lock while it holds the lock:
\* the status handler that runs downstream of an admitted request can take
\* the lock.
NoLockHeldWhileWaiting ==
    \A c \in Callers : pc[c] \in {"mw_lock", "st_lock"} => mx # c

\* C10 as stated. While the downstream handler of an admitted request is
\* running the lock is free.
LockFreeWhileHandlerRuns ==
    \A c \in Callers : pc[c] = "handler" => mx = NoOwner

\* C11 as stated. A request sent by a rejected caller after a further
\* refill tick is admitted, whatever the other callers do.
RetryIsAdmitted ==
    \A c \in Callers :
        (RATE_LIMIT > 0 /\ retry[c] /\ res[c].outcome # "none") =>
            res[c].outcome = "Admitted"

\* C11, amended. With a positive capacity, a request sent by a rejected
\* caller after a further refill tick is admitted when it is the first
\* middleware call decided since the last tick; when other calls are
\* decided between the tick and the retry it may be rejected again.
RetryFirstIsAdmitted ==
    \A c \in Callers :
        (RATE_LIMIT > 0 /\ retry[c] /\ res[c].outcome # "none"
                        /\ Len(sinceTick) = 1) =>
            res[c].outcome = "Admitted"

\* A retry was the first call decided after the tick, got the token, and a
\* second request is waiting for the lock behind it.
RetryWitness ==
    \E c \in Callers :
        /\ retry[c]
        /\ pc[c] = "handler"
        /\ Len(sinceTick) = 1
        /\ sinceTick[1].outcome = "Admitted"
        /\ Contenders > 0

\* C12 as stated. A status request is not subject to admission, on a route
\* of its own and on main's route GET /test/bucket alike: it gets no
\* admission decision, so it takes no token and is not rejected.
StatusIndependentOfAdmission ==
    \A c \in Callers :
        kind[c] \in {"bucket", "status"} => res[c].outcome = "none"

\* C13. Start of the lifecycle: from New() until the first RefillBucket has
\* run the bucket is empty, and SetConfig has stored one of the
\* configurations it was given; requests answered in that time do not
\* change the bucket.
StartsEmpty ==
    /\ ticksDone = 0 => tokenBucket = <<>>
    /\ phase = "new" => (RATE_LIMIT = 0 /\ REFILL_INTERVAL = 0)
    /\ phase = "configured" => <<RATE_LIMIT, REFILL_INTERVAL>> \in Configs

\* A bucket configured with capacity 3 and started, still empty: a request
\* has been answered and the first tick is waiting for the lock.
StartsEmptyWitness ==
    /\ phase = "running"
    /\ RATE_LIMIT = MaxCapacity
    /\ ticksDone = 0
    /\ locking > 0
    /\ Len(sinceTick) > 0
    /\ tokenBucket = <<>>

\* C14. The downstream handler runs exactly when the request was admitted:
\* a request is inside or behind its downstream handler only with outcome
\* Admitted, the handler has not written before it ran and has written once
\* after, and a rejected request is at the 429 response and nowhere else.
HandlerIffAdmitted ==
    \A c \in Callers :
        kind[c] \in MiddlewareKinds =>
            /\ pc[c] = "mw_lock" <=> res[c].outcome = "none"
            /\ pc[c] = "write429" <=> res[c].outcome = "Rejected"
            /\ pc[c] \in {"handler", "st_lock", "st_write", "mw_ret"}
                   <=> res[c].outcome = "Admitted"
            /\ pc[c] = "handler" => res[c].code = 0
            /\ (pc[c] = "mw_ret" /\ kind[c] = "test") =>
                   res[c].code = StatusOK
            /\ res[c].outcome = "Rejected" =>
                   res[c].code = StatusTooManyRequests

\* A request has been admitted and its handler has run once, after an
\* earlier request was rejected, and another request is waiting for the lock.
HandlerWitness ==
    /\ \E c \in Callers : pc[c] = "mw_ret" /\ res[c].code = StatusOK
    /\ \E d \in Callers : pc[d] = "mw_lock"
    /\ hinted

\* C16. Non-positive capacity: SetConfig stores it like any other, and with
\* it no RefillBucket ever appends a token and every middleware call is
\* rejected, whatever the interleaving.
NonPositiveCapacityNeverAdmits ==
    RATE_LIMIT <= 0 =>
        /\ tokenBucket = <<>>
        /\ added = 0
        /\ admitted = 0
        /\ lenAtTick = 0
        /\ \A i \in 1..Len(sinceTick) : sinceTick[i].outcome = "Rejected"
        /\ \A c \in Callers : res[c].outcome # "Admitted"

\* SetConfig has stored capacity -1, two ticks have run and added nothing,
\* and two requests have been rejected since.
NonPositiveCapacityWitness ==
    /\ phase = "running"
    /\ RATE_LIMIT = -1
    /\ ticksDone >= 2
    /\ Len(sinceTick) >= 2
    /\ \E c \in Callers : res[c].outcome = "Rejected"

RunPanicsOnNonPositiveInterval ==
    /\ REFILL_INTERVAL <= 0 =>
           /\ runs = 0
           /\ locking = 0
           /\ ticksDone = 0
           /\ tokenBucket = <<>>
           /\ phase # "running"
    /\ phase = "panicked" => REFILL_INTERVAL <= 0
    /\ phase = "running" => runs > 0

\* Run has panicked on a bucket configured with capacity 1 and interval
\* -1 s, after a request had been answered.
RunPanicsWitness ==
    /\ phase = "panicked"
    /\ RATE_LIMIT = 1
    /\ REFILL_INTERVAL = -Second
    /\ requests > 0
    /\ tokenBucket = <<>>

\* C15. Variant equivalence: the three middlewares, each on a bucket of its
\* own, given the same ticks and the same requests in the same order, have
\* produced the same outcome, remaining count and retry hint at the last
\* request and hold equal buckets, after every step; and that common
\* outcome and bucket are those of the limiter itself.
VariantEquivalence ==
    /\ variant["http"] = variant["gin"]
    /\ variant["gin"] = variant["standalone"]
    /\ variant["http"].bucket = tokenBucket
    /\ Len(sinceTick) > 0 =>
           variant["http"].out = sinceTick[Len(sinceTick)]

\* After a rejection and further ticks the three variants have admitted a
\* request each and each holds one token more.
VariantWitness ==
    /\ hinted
    /\ variant["gin"].out.outcome = "Admitted"
    /\ variant["http"].out.remaining = 1
    /\ Len(variant["standalone"].bucket) = 1
    /\ variant["standalone"].out.token > 1

\* C19 as stated. SetConfig on a live bucket changes no token; while the
\* bucket holds more tokens than the capacity now in force no step adds a
\* token; and the bucket shrinks only by one token, for an admitted request.
ReconfigurationKeepsTokens ==
    [][/\ RATE_LIMIT' # RATE_LIMIT => tokenBucket' = tokenBucket
       /\ Len(tokenBucket) > RATE_LIMIT =>
              Len(tokenBucket') <= Len(tokenBucket)
       /\ Len(tokenBucket') < Len(tokenBucket) =>
              /\ Len(tokenBucket') = Len(tokenBucket) - 1
              /\ admitted' = admitted + 1]_vars

\* C17 as stated. Once Run has started a refill goroutine a further refill
\* tick remains possible in every state: the lock RefillBucket needs is
\* never held by a request that cannot release it, which is a request
\* waiting for that same lock.  (No action of the model ends a refill
\* goroutine or stops its ticker, as no statement of the code does.)
RefillRemainsPossible ==
    runs > 0 => ~ \E c \in Callers : mx = c /\ pc[c] = "st_lock"

TypeOK ==
    /\ RATE_LIMIT \in Capacities \cup {0}
    /\ REFILL_INTERVAL \in Intervals
    /\ mx \in {NoOwner} \cup Callers
    /\ refilling = "no"
    /\ Len(tokenBucket) <= MaxTicks

====
